---- MODULE Spec2Model ----
(***************************************************************************)
(* Model of lintorch/fcns/solve.py: the batched conjugate-gradient solve   *)
(* of (A - biases*M) X = B and its adjoint backward rule.                  *)
(*                                                                         *)
(* Tensors of shape (nbatch, na, ncols) are sequences of columns, each a   *)
(* sequence of na exact rationals; the batch index and the column index    *)
(* are flattened into one column index (every operation of the solver is   *)
(* elementwise over both, only dim 1 is reduced).  A tensor of shape       *)
(* (nbatch, 1, ncols) or (nbatch, ncols) is a sequence of rationals, one   *)
(* per column.  An absent value (Python None) is the empty tuple, a        *)
(* present one a 1-tuple.                                                  *)
(***************************************************************************)
EXTENDS Integers, Sequences, FiniteSets, TLC

VARIABLES pc, req, args, frame, cg, cnt, ctxs, bwd, result, grads

vars == <<pc, req, args, frame, cg, cnt, ctxs, bwd, result, grads>>

None == <<>>
Some(v) == <<v>>

-----------------------------------------------------------------------------
(* Exact rational arithmetic: <<n, d>> with d > 0 and gcd(n, d) = 1.       *)

AbsInt(n) == IF n < 0 THEN -n ELSE n

RECURSIVE Gcd(_, _)
Gcd(a, b) == IF b = 0 THEN a ELSE Gcd(b, a % b)

Q(n, d) ==
    LET g == Gcd(AbsInt(n), AbsInt(d))
        s == IF d < 0 THEN -1 ELSE 1
    IN  <<s * (n \div g), s * (d \div g)>>

ZeroQ == <<0, 1>>

NegQ(a) == <<-a[1], a[2]>>

AbsQ(a) == <<AbsInt(a[1]), a[2]>>

AddQ(a, b) ==
    LET g == Gcd(a[2], b[2])
    IN  Q(a[1] * (b[2] \div g) + b[1] * (a[2] \div g), (a[2] \div g) * b[2])

SubQ(a, b) == AddQ(a, NegQ(b))

MulQ(a, b) ==
    LET g1 == Gcd(AbsInt(a[1]), b[2])
        g2 == Gcd(AbsInt(b[1]), a[2])
    IN  Q((a[1] \div g1) * (b[1] \div g2), (a[2] \div g2) * (b[2] \div g1))

InvQ(b) == IF b[1] < 0 THEN <<-b[2], -b[1]>> ELSE <<b[2], b[1]>>

DivQ(a, b) == MulQ(a, InvQ(b))

(* an/ad < bn/bd for non-negative fractions, by continued fractions (no    *)
(* cross product, so no overflow).                                         *)
RECURSIVE LtFrac(_, _, _, _)
LtFrac(an, ad, bn, bd) ==
    LET qa == an \div ad
        qb == bn \div bd
        ra == an % ad
        rb == bn % bd
    IN  IF qa # qb THEN qa < qb
        ELSE IF ra = 0 THEN rb > 0
        ELSE IF rb = 0 THEN FALSE
        ELSE LtFrac(bd, rb, ad, ra)

LtQ(a, b) ==
    IF a[1] < 0
    THEN IF b[1] < 0 THEN LtFrac(-b[1], b[2], -a[1], a[2]) ELSE TRUE
    ELSE IF b[1] < 0 THEN FALSE ELSE LtFrac(a[1], a[2], b[1], b[2])

LeQ(a, b) == ~LtQ(b, a)

(* n/d < 10^(-k) for n >= 0:  n*10^k < d  iff  n*10^(k-1) < ceil(d/10).     *)
RECURSIVE LtPow10Neg(_, _, _)
LtPow10Neg(n, d, k) ==
    IF k = 0 THEN n < d ELSE LtPow10Neg(n, (d + 9) \div 10, k - 1)

(* a * 10^k *)
RECURSIVE MulPow10(_, _)
MulPow10(a, k) == IF k = 0 \/ a[1] = 0 THEN a ELSE MulPow10(MulQ(a, <<10, 1>>), k - 1)

RECURSIVE SumQ(_)
SumQ(s) == IF s = <<>> THEN ZeroQ ELSE AddQ(Head(s), SumQ(Tail(s)))

RECURSIVE MaxQ(_)
MaxQ(s) ==
    IF Len(s) = 1 THEN s[1]
    ELSE LET m == MaxQ(Tail(s)) IN IF LtQ(s[1], m) THEN m ELSE s[1]

RECURSIVE MinQ(_)
MinQ(s) ==
    IF Len(s) = 1 THEN s[1]
    ELSE LET m == MinQ(Tail(s)) IN IF LtQ(m, s[1]) THEN m ELSE s[1]

-----------------------------------------------------------------------------
(* Tensor operations.                                                      *)

(* <<F(1), ..., F(n)>>, built element by element *)
RECURSIVE Tab(_, _)
Tab(F(_), n) == IF n = 0 THEN <<>> ELSE Append(Tab(F, n - 1), F(n))

NCols(T) == Len(T)
NRows(T) == Len(T[1])

(* the tensor of F(c, i) over the columns c and rows i of T *)
Tensor(F(_, _), T) ==
    LET col(c) == LET el(i) == F(c, i) IN Tab(el, NRows(T))
    IN  Tab(col, NCols(T))

(* torch.zeros_like *)
ZerosLikeAsCopy(T) == T
ZerosLike(T) == LET f(c, i) == ZeroQ IN Tensor(f, T)

TAdd(S, T) == LET f(c, i) == AddQ(S[c][i], T[c][i]) IN Tensor(f, S)
TSub(S, T) == LET f(c, i) == SubQ(S[c][i], T[c][i]) IN Tensor(f, S)
TMul(S, T) == LET f(c, i) == MulQ(S[c][i], T[c][i]) IN Tensor(f, S)

(* T * b.unsqueeze(1): a per-column factor broadcast over dim 1 *)
ColScale(T, b) == LET f(c, i) == MulQ(T[c][i], b[c]) IN Tensor(f, T)

(* T.sum(dim=1) *)
SumDim1(T) == LET f(c) == SumQ(T[c]) IN Tab(f, NCols(T))

(* _dot(C, D) = (C*D).sum(dim=1, keepdim=True) *)
Dot(C, D) == SumDim1(TMul(C, D))

SafeDivideEpsExp == 10

(* _safe_divide(A, B, eps=1e-10): denominators with |.| < eps become eps *)
SafeDivide(A, B) ==
    LET f(c) == IF LtPow10Neg(AbsInt(B[c][1]), B[c][2], SafeDivideEpsExp)
                THEN MulPow10(A[c], SafeDivideEpsExp)
                ELSE DivQ(A[c], B[c])
    IN  Tab(f, Len(A))

AllCloseRtol == <<1, 100000>>
AllCloseAtol == <<1, 100000000>>

(* torch.allclose(S, T): every |S - T| <= atol + rtol * |T| *)
(* (equal entries differ by 0, which is within every tolerance)         *)
AllClose(S, T) ==
    \A c \in 1..NCols(S) : \A i \in 1..NRows(S) :
        \/ S[c][i] = T[c][i]
        \/ LeQ(AbsQ(SubQ(S[c][i], T[c][i])),
               AddQ(AllCloseAtol, MulQ(AllCloseRtol, AbsQ(T[c][i]))))

(* Rs_new.abs().max() *)
EpsMaxAsMin(Rs) == LET f(c) == AbsQ(Rs[c]) IN MinQ(Tab(f, Len(Rs)))
EpsMax(Rs) == LET f(c) == AbsQ(Rs[c]) IN MaxQ(Tab(f, Len(Rs)))

-----------------------------------------------------------------------------
(* Linear operators (lintorch.Module objects supplied by the caller).      *)
(* An operator is [kind, is_symmetric, shape, precond_set]; its matrix is  *)
(* a function of its parameter tensors:                                    *)
(*   diag : params = <<d>>      A = diag(d)                                 *)
(*   sym  : params = <<d, o>>   A = [[d1, o1], [o1, d2]]                    *)
(*   twice: params = <<>>       A = 2*I                                     *)

Mat(op, params) ==
    LET n == op.shape[1]
        row(i) ==
            LET el(j) ==
                CASE op.kind = "diag"  -> IF i = j THEN Q(params[1][i], 1) ELSE ZeroQ
                  [] op.kind = "sym"   -> IF i = j THEN Q(params[1][i], 1)
                                                   ELSE Q(params[2][1], 1)
                  [] op.kind = "twice" -> IF i = j THEN Q(2, 1) ELSE ZeroQ
            IN  Tab(el, n)
    IN  Tab(row, n)

(* op(X, *params) *)
Apply(op, X, params) ==
    LET m == Mat(op, params)
        f(c, i) == LET term(j) == MulQ(m[i][j], X[c][j]) IN SumQ(Tab(term, NRows(X)))
    IN  Tensor(f, X)

(* op.precond(X, *params, biases=, M=, mparams=): X / diag *)
ApplyPrecond(op, X, params) ==
    LET f(c, i) == DivQ(X[c][i], Q(params[1][i], 1)) IN Tensor(f, X)

-----------------------------------------------------------------------------
(* Option dictionaries.                                                    *)

NoOptions == [k \in {} |-> TRUE]

Opt(r) == [k \in DOMAIN r |-> r[k]]

(* set_default_option(defopt, opt): defopt updated with opt *)
SetDefaultOption(defopt, opt) ==
    [k \in (DOMAIN defopt) \cup (DOMAIN opt) |->
        IF k \in DOMAIN opt THEN opt[k] ELSE defopt[k]]

(* str.lower() on the method names in use *)
Lower(s) ==
    CASE s = "ConjGrad" -> "conjgrad"
      [] s = "CONJGRAD" -> "conjgrad"
      [] s = "GMRES"    -> "gmres"
      [] OTHER          -> s

(* config of forward *)
FwdConfig(fwd_options, bck_options) ==
    SetDefaultOption([method |-> "conjgrad"], fwd_options)

(* ctx.bck_config of forward *)
BckConfigFromFwd(fwd_options, bck_options) ==
    SetDefaultOption([method |-> "conjgrad"], fwd_options)
BckConfig(fwd_options, bck_options) ==
    SetDefaultOption([method |-> "conjgrad"], bck_options)

(* the method dispatch of forward *)
MethodAny(config) == TRUE
MethodIsConjgrad(config) == Lower(config["method"]) = "conjgrad"

IsSquareAny(A) == TRUE
IsSquare(A) == A.shape[1] = A.shape[2]

MinEpsDefault == <<1, 1000000>>

(* for i in range(n): whether index i is still in range(n) *)
InRangeInclusive(i, n) == i <= n
InRange(i, n) == i < n

(* config of conjgrad *)
CGConfig(na, options) ==
    SetDefaultOption([max_niter |-> na, verbose |-> FALSE, min_eps |-> MinEpsDefault],
                     options)

-----------------------------------------------------------------------------
(* The inputs of the model.                                                *)

MaxNiter == 2
MaxDepth == 2

OpDiag      == [kind |-> "diag", is_symmetric |-> TRUE,  shape |-> <<2, 2>>, precond_set |-> TRUE]
OpSym       == [kind |-> "sym",  is_symmetric |-> TRUE,  shape |-> <<2, 2>>, precond_set |-> FALSE]
OpNonSym    == [kind |-> "sym",  is_symmetric |-> FALSE, shape |-> <<2, 2>>, precond_set |-> FALSE]
OpNonSquare == [kind |-> "diag", is_symmetric |-> TRUE,  shape |-> <<2, 3>>, precond_set |-> FALSE]

Operators == {OpDiag, OpSym, OpNonSym, OpNonSquare}

ParamsFor(op) == IF op.kind = "diag" THEN << <<2, 2>> >> ELSE << <<2, 2>>, <<1>> >>

MDiag  == [kind |-> "diag",  is_symmetric |-> TRUE, shape |-> <<2, 2>>, precond_set |-> FALSE]
MTwice == [kind |-> "twice", is_symmetric |-> TRUE, shape |-> <<2, 2>>, precond_set |-> FALSE]

(* the (M, mparams) pairs a caller passes *)
MChoices ==
    { <<None, <<>>>>, <<None, << <<1, 3>> >> >>,
      <<Some(MDiag), << <<1, 3>> >> >>, <<Some(MTwice), <<>>>> }

Col(a, b) == <<Q(a, 1), Q(b, 1)>>

Bs == { <<Col(0, 0), Col(0, 0)>>, <<Col(1, 1), Col(1, 0)>>, <<Col(1, 0)>>,
        << <<Q(1, 1000000000), Q(0, 1)>> >> }

BiasesFor(B) == {None, Some(LET f(c) == Q(1, 1) IN Tab(f, NCols(B)))}

FwdOptionSets ==
    {NoOptions, Opt([method |-> "gmres"]),
     Opt([method |-> "ConjGrad", verbose |-> TRUE, min_eps |-> <<1, 1>>])}
    \cup {Opt([max_niter |-> k]) : k \in 0..MaxNiter}

BckOptionSets ==
    {NoOptions, Opt([method |-> "gmres"]), Opt([max_niter |-> 0]),
     Opt([max_niter |-> MaxNiter, min_eps |-> <<1, 1>>])}

(* the gradients the autograd engine hands to backward for an output x *)
GradXs(x) == {ZerosLike(x), LET f(c) == Col(1, 0) IN Tab(f, NCols(x))}

-----------------------------------------------------------------------------
(* State.                                                                  *)
(*   pc     where control is: idle, forward, conjgrad, loop, backward      *)
(*   req    the arguments of the caller's solve call, as given             *)
(*   args   the arguments solve_torchfcn.forward received (current solve)  *)
(*   frame  forward's locals                                               *)
(*   cg     conjgrad's locals, with the history of eps_max and Rs_new      *)
(*   cnt    per solve call: applications of A, M and A.precond, loop       *)
(*          bodies run, lines printed                                      *)
(*   ctxs   ctxs[d+1] is the ctx saved by the solve at nesting depth d     *)
(*   bwd    the backward call in progress or last completed                *)
(*   result how the current/last solve call ended                          *)
(*   grads  the tuple the last backward call returned                      *)

NoFrame == [params |-> <<>>, mparams |-> <<>>, config |-> NoOptions, bck_config |-> NoOptions]

NoCG == [config |-> NoOptions, Beff |-> <<>>, X |-> <<>>, R |-> <<>>, P |-> <<>>,
         Rs_old |-> <<>>, i |-> 0, eps_hist |-> <<>>, rho_hist |-> <<>>, how |-> "none"]

ZeroCnt == [A |-> 0, M |-> 0, P |-> 0, iters |-> 0, printed |-> 0]

NoResult == [kind |-> "none", x |-> <<>>, err |-> ""]

NoBwd == [state |-> "none", d |-> 0, grad_x |-> <<>>, v |-> <<>>, nA |-> 0, nM |-> 0, vjp |-> 0]

NoReq == [A |-> OpDiag, params |-> <<>>, B |-> <<>>, biases |-> None, M |-> None,
          mparams |-> <<>>, fwd_options |-> NoOptions, bck_options |-> NoOptions, made |-> FALSE]

(* solve, lines 38-40: a bias-free system never gets M *)
EffectiveMKeep(biases, M) == M
EffectiveM(biases, M) == IF biases = None THEN None ELSE M

(* solve, line 41: the inputs of solve_torchfcn.apply *)
Enter(depth, A, params, B, biases, M, mparams, fwd_options, bck_options) ==
    [depth |-> depth, A |-> A, B |-> B, biases |-> biases, M |-> EffectiveM(biases, M),
     fwd_options |-> fwd_options, bck_options |-> bck_options,
     na |-> Len(params), AMparams |-> params \o mparams]

NoArgs == Enter(0, OpDiag, <<>>, <<>>, None, None, <<>>, NoOptions, NoOptions)

Init ==
    /\ pc = "idle"
    /\ req = NoReq
    /\ args = NoArgs
    /\ frame = NoFrame
    /\ cg = NoCG
    /\ cnt = ZeroCnt
    /\ ctxs = <<>>
    /\ bwd = NoBwd
    /\ result = NoResult
    /\ grads = <<>>

(* the caller's solve(A, params, B, biases, M, mparams, fwd_options, bck_options) *)
Solve ==
    /\ pc = "idle"
    /\ ~req.made
    /\ \E A \in Operators, B \in Bs, mm \in MChoices,
          fo \in FwdOptionSets, bo \in BckOptionSets :
       \E biases \in BiasesFor(B) :
          /\ req' = [A |-> A, params |-> ParamsFor(A), B |-> B, biases |-> biases,
                     M |-> mm[1], mparams |-> mm[2], fwd_options |-> fo,
                     bck_options |-> bo, made |-> TRUE]
          /\ args' = Enter(0, A, ParamsFor(A), B, biases, mm[1], mm[2], fo, bo)
    /\ pc' = "forward"
    /\ frame' = NoFrame
    /\ cg' = NoCG
    /\ cnt' = ZeroCnt
    /\ ctxs' = <<>>
    /\ bwd' = NoBwd
    /\ result' = NoResult
    /\ grads' = <<>>

(* a RuntimeError leaves the solve call, and the backward call around it *)
Raise(msg) ==
    /\ pc' = "idle"
    /\ result' = [kind |-> "error", x |-> <<>>, err |-> msg]
    /\ bwd' = IF args.depth > 0 THEN [bwd EXCEPT !.state = "failed"] ELSE bwd
    /\ grads' = <<>>
    /\ ctxs' = ctxs

(* forward, lines 76-82: save the ctx and return x *)
SavedCtx(x) ==
    [A |-> args.A, M |-> args.M, biases |-> args.biases, x |-> x,
     params |-> frame.params, mparams |-> frame.mparams,
     bck_config |-> frame.bck_config, n_inputs |-> 7 + Len(args.AMparams)]

Return(x) ==
    /\ pc' = IF args.depth = 0 THEN "idle" ELSE "backward"
    /\ result' = [kind |-> "returned", x |-> x, err |-> ""]
    /\ ctxs' = Append(ctxs, SavedCtx(x))
    /\ bwd' = bwd
    /\ grads' = grads

(* forward, lines 45-74 *)
Forward ==
    /\ pc = "forward"
    /\ LET params   == SubSeq(args.AMparams, 1, args.na)
           mparams  == SubSeq(args.AMparams, args.na + 1, Len(args.AMparams))
           config   == FwdConfig(args.fwd_options, args.bck_options)
           bck_conf == BckConfig(args.fwd_options, args.bck_options)
       IN  /\ frame' = [params |-> params, mparams |-> mparams,
                        config |-> config, bck_config |-> bck_conf]
           /\ IF ~args.A.is_symmetric THEN Raise("nonsymmetric")
              ELSE IF ~IsSquare(args.A) THEN Raise("nonsquare")
              ELSE IF ~MethodIsConjgrad(config) THEN Raise("unknown method")
              ELSE /\ pc' = "conjgrad"
                   /\ UNCHANGED <<result, bwd, grads, ctxs>>
    /\ UNCHANGED <<req, args, cg, cnt>>

-----------------------------------------------------------------------------
(* conjgrad.                                                               *)

(* lines 150-158: Aa = A - biases*M, A - biases*I, or A *)
UsesM == args.biases # None /\ args.M # None

Aa(X) ==
    IF args.biases # None
    THEN IF args.M # None
         THEN TSub(Apply(args.A, X, frame.params),
                   ColScale(Apply(args.M[1], X, frame.mparams), args.biases[1]))
         ELSE TSub(Apply(args.A, X, frame.params), ColScale(X, args.biases[1]))
    ELSE Apply(args.A, X, frame.params)

(* lines 143-148 *)
Precondt(X) ==
    IF args.A.precond_set THEN ApplyPrecond(args.A, X, frame.params) ELSE X

(* lines 160-164: the doubled transformation and preconditioner *)
Aeff(X) == Aa(Aa(X))
Peff(X) == Precondt(Precondt(X))

(* cnt after k calls of Aa and p calls of precondt *)
Counted(k, p) ==
    [cnt EXCEPT !.A = @ + k,
                !.M = @ + (IF UsesM THEN k ELSE 0),
                !.P = @ + (IF args.A.precond_set THEN p ELSE 0)]

(* lines 129-178: the set-up, the zero right-hand side shortcut, R, P, Rs_old *)
Conjgrad ==
    /\ pc = "conjgrad"
    /\ \E config \in {CGConfig(NRows(args.B), frame.config)} :
         IF ~args.A.is_symmetric
         THEN /\ cg' = [NoCG EXCEPT !.config = config]
              /\ cnt' = cnt
              /\ Raise("not real-symmetric")
         ELSE \E Beff \in {Aa(args.B)} : \E X0 \in {ZerosLike(Beff)} :
                IF AllClose(Beff, X0)
                THEN /\ cg' = [NoCG EXCEPT !.config = config, !.Beff = Beff,
                                           !.X = X0, !.how = "zero"]
                     /\ cnt' = Counted(1, 0)
                     /\ Return(X0)
                ELSE \E AX \in {Aeff(X0)} : \E R \in {TSub(Beff, AX)} :
                     \E P \in {Peff(R)} :
                       /\ cg' = [NoCG EXCEPT !.config = config, !.Beff = Beff,
                                             !.X = X0, !.R = R, !.P = P,
                                             !.Rs_old = Dot(R, P)]
                       /\ cnt' = Counted(3, 2)
                       /\ pc' = "loop"
                       /\ UNCHANGED <<result, bwd, grads, ctxs>>
    /\ UNCHANGED <<req, args, frame>>

(* lines 179-195: one pass through the loop body *)
CGIter ==
    /\ pc = "loop"
    /\ InRange(cg.i, cg.config["max_niter"])
    /\ \E Ap \in {Aeff(cg.P)} :
       \E PAp \in {Dot(cg.P, Ap)} :
       \E alpha \in {SafeDivide(cg.Rs_old, PAp)} :
       \E X \in {TAdd(cg.X, ColScale(cg.P, alpha))} :
       \E R \in {TSub(cg.R, ColScale(Ap, alpha))} :
       \E prR \in {Peff(R)} :
       \E Rs_new \in {Dot(R, prR)} :
       \E eps_max \in {EpsMax(Rs_new)} :
       \E seen \in {[cg EXCEPT !.X = X, !.R = R,
                               !.eps_hist = Append(@, eps_max),
                               !.rho_hist = Append(@, Rs_new)]} :
          /\ cnt' = [Counted(2, 2) EXCEPT
                        !.iters = @ + 1,
                        !.printed = @ + (IF cg.config["verbose"] THEN 1 ELSE 0)]
          /\ IF LtQ(eps_max, cg.config["min_eps"])
             THEN /\ cg' = [seen EXCEPT !.how = "break"]
                  /\ Return(X)
             ELSE /\ \E beta \in {SafeDivide(Rs_new, cg.Rs_old)} :
                       cg' = [seen EXCEPT !.P = TAdd(prR, ColScale(cg.P, beta)),
                                          !.Rs_old = Rs_new,
                                          !.i = @ + 1]
                  /\ UNCHANGED <<pc, result, bwd, grads, ctxs>>
    /\ UNCHANGED <<req, args, frame>>

(* lines 179, 197: range(max_niter) is used up *)
CGExhausted ==
    /\ pc = "loop"
    /\ ~InRange(cg.i, cg.config["max_niter"])
    /\ cg' = [cg EXCEPT !.how = "exhausted"]
    /\ Return(cg.X)
    /\ UNCHANGED <<req, args, frame, cnt>>

-----------------------------------------------------------------------------
(* backward.                                                               *)

GNone      == [kind |-> "none", val |-> <<>>]
GTensor(t) == [kind |-> "tensor", val |-> t]

(* torch.autograd.grad((out,), inputs, grad_outputs=(seed,)): one gradient  *)
(* per input                                                               *)
VJP(fn, inputs, seed) ==
    LET g(i) == [kind |-> "vjp", val |-> <<fn, i, seed>>] IN Tab(g, Len(inputs))

(* lines 92-94: the nested solve of backward on ctxs[d] *)
NestedOptions(ctx) == <<ctx.bck_config, ctx.bck_config>>

Backward ==
    /\ pc = "idle"
    /\ \E d \in 1..Len(ctxs) :
         /\ d <= MaxDepth
         /\ \E grad_x \in GradXs(ctxs[d].x) :
              LET ctx == ctxs[d]
                  o   == NestedOptions(ctx)
              IN  /\ args' = Enter(d, ctx.A, ctx.params, grad_x, ctx.biases, ctx.M,
                                   ctx.mparams, o[1], o[2])
                  /\ bwd' = [NoBwd EXCEPT !.state = "solving", !.d = d, !.grad_x = grad_x]
                  /\ ctxs' = SubSeq(ctxs, 1, d)
    /\ pc' = "forward"
    /\ frame' = NoFrame
    /\ cg' = NoCG
    /\ cnt' = ZeroCnt
    /\ result' = NoResult
    /\ grads' = <<>>
    /\ UNCHANGED req

(* line 95 *)
GradBOfGradX(b, v) == b.grad_x
GradB(b, v) == v

(* lines 114-116: whether the gradients of mparams are computed *)
WantsMGradsAlways(ctx) == TRUE
WantsMGrads(ctx) == ctx.M # None

(* lines 95-127: the gradients, once the nested solve has returned v *)
BackwardGrads ==
    /\ pc = "backward"
    /\ \E ctx \in {ctxs[bwd.d]} : \E v \in {result.x} :
       \E hasb \in {ctx.biases # None} : \E wantm \in {WantsMGrads(ctx)} :
         IF wantm /\ ~hasb
         THEN (* line 119: ctx.biases.unsqueeze on None *)
              /\ pc' = "idle"
              /\ bwd' = [bwd EXCEPT !.state = "failed", !.v = v, !.nA = 1, !.vjp = 1]
              /\ grads' = <<>>
         ELSE \E Mx \in {IF ctx.M = None THEN ctx.x
                         ELSE Apply(ctx.M[1], ctx.x, ctx.mparams)} :
              \E grad_biases \in {IF hasb THEN GTensor(SumDim1(TMul(v, Mx))) ELSE GNone} :
                /\ pc' = "idle"
                /\ bwd' = [bwd EXCEPT
                             !.state = "done", !.v = v, !.nA = 1,
                             !.nM = (IF hasb /\ ctx.M # None THEN 1 ELSE 0)
                                    + (IF wantm THEN 1 ELSE 0),
                             !.vjp = 1 + (IF wantm THEN 1 ELSE 0)]
                /\ grads' = <<GNone, GTensor(GradB(bwd, v)), grad_biases,
                              GNone, GNone, GNone, GNone>>
                            \o VJP("negA", ctx.params, v)
                            \o (IF wantm THEN VJP("M", ctx.mparams, v) ELSE <<>>)
    /\ UNCHANGED <<req, args, frame, cg, cnt, ctxs, result>>

Next ==
    \/ Solve
    \/ Forward
    \/ Conjgrad
    \/ CGIter
    \/ CGExhausted
    \/ Backward
    \/ BackwardGrads

Spec == Init /\ [][Next]_vars

-----------------------------------------------------------------------------
(* Properties.                                                             *)

IsZero(T) ==
    \A c \in 1..NCols(T) : \A i \in 1..NRows(T) : T[c][i][1] = 0

(* every entry within the absolute tolerance of torch.allclose *)
NumZero(T) ==
    \A c \in 1..NCols(T) : \A i \in 1..NRows(T) : LeQ(AbsQ(T[c][i]), AllCloseAtol)

(* forward has run its checks for the current solve call *)
Checked == req.made /\ pc # "forward"

(* the current solve call ended in an error: nothing ran, nothing returned *)
FailedFast ==
    /\ pc = "idle"
    /\ result.kind = "error"
    /\ cnt = ZeroCnt
    /\ Len(ctxs) = args.depth
    /\ grads = <<>>
    /\ args.depth > 0 => bwd.state = "failed"

(* C1: a solve call (at any depth) whose operator is not declared symmetric *)
(* or whose declared shape is not square ends in an error with A, M and    *)
(* the preconditioner never applied, no loop body run and no X returned.   *)
C1_FailFast ==
    (Checked /\ (~args.A.is_symmetric \/ args.A.shape[1] # args.A.shape[2]))
        => FailedFast /\ result.err \in {"nonsymmetric", "nonsquare"}

C1_Witness ==
    /\ Checked
    /\ args.A.is_symmetric
    /\ args.A.shape[1] # args.A.shape[2]
    /\ result.err = "nonsquare"

(* the option set the current solve call uses, as the caller gave it *)
UsedOptions == IF args.depth = 0 THEN req.fwd_options ELSE req.bck_options

(* the method named by opts is not conjgrad (names are matched after       *)
(* lower-casing them)                                                      *)
Unsupported(opts) ==
    "method" \in DOMAIN opts /\ opts["method"] \notin {"conjgrad", "ConjGrad", "CONJGRAD"}

(* C2: a solve call whose option set names an unsupported method ends in   *)
(* an error, with no loop body run and nothing returned: the forward solve *)
(* under the forward options, the nested solve of backward under the       *)
(* backward options.                                                       *)
C2_UnknownMethodFails ==
    (Checked /\ Unsupported(UsedOptions)) => FailedFast

C2_Witness ==
    /\ Checked
    /\ args.depth >= 1
    /\ Unsupported(req.bck_options)
    /\ ~Unsupported(req.fwd_options)
    /\ result.err = "unknown method"

(* C3: with the bias absent, the call with M set enters forward with the   *)
(* very arguments of the call with M absent, and M is applied neither by   *)
(* any solve nor by backward; every ctx holds no M.                        *)
C3_MIgnoredWithoutBias ==
    (req.made /\ req.biases = None) =>
        /\ args.M = None
        /\ cnt.M = 0
        /\ bwd.nM = 0
        /\ \A d \in 1..Len(ctxs) : ctxs[d].M = None
        /\ (pc = "forward" /\ args.depth = 0) =>
              args = Enter(0, req.A, req.params, req.B, None, None, req.mparams,
                           req.fwd_options, req.bck_options)

C3_Witness ==
    /\ req.made
    /\ req.biases = None
    /\ req.M # None
    /\ bwd.state = "done"
    /\ cnt.A > 0

(* C4: once conjgrad has computed a numerically all-zero Beff (always so   *)
(* for an all-zero B), it has returned the all-zero X and no loop body has *)
(* run, whatever max_niter and min_eps are.                                *)
C4_ZeroRhsShortcut ==
    (cg.Beff # <<>>) =>
        /\ IsZero(args.B) => NumZero(cg.Beff)
        /\ NumZero(cg.Beff) =>
              /\ cg.how = "zero"
              /\ cnt.iters = 0
              /\ result.kind = "returned"
              /\ IsZero(result.x)

C4_Witness ==
    /\ cg.how = "zero"
    /\ ~IsZero(args.B)
    /\ ~IsZero(cg.Beff)
    /\ cg.config["max_niter"] > 0
    /\ result.kind = "returned"

(* C5: when range(max_niter) is used up without eps_max ever falling       *)
(* below min_eps, conjgrad has run max_niter loop bodies and returned its  *)
(* current X, with no error; with max_niter = 0 that X is all zero.        *)
C5_SilentNonConvergence ==
    (cg.how = "exhausted") =>
        /\ cnt.iters = cg.config["max_niter"]
        /\ \A k \in 1..Len(cg.eps_hist) : ~LtQ(cg.eps_hist[k], cg.config["min_eps"])
        /\ result = [kind |-> "returned", x |-> cg.X, err |-> ""]
        /\ Len(ctxs) = args.depth + 1
        /\ ctxs[args.depth + 1].x = cg.X
        /\ cg.config["max_niter"] = 0 => IsZero(result.x)

C5_Witness ==
    /\ cg.how = "exhausted"
    /\ cnt.iters >= 1
    /\ ~NumZero(cg.R)

(* the backward options of the caller's solve call, as forward merges them *)
MergedBck == SetDefaultOption([method |-> "conjgrad"], req.bck_options)

(* C6: every solve run for a backward call, at every depth, gets the       *)
(* caller's backward options as its forward and as its backward options,   *)
(* and forward and conjgrad configure themselves from them alone.          *)
C6_BackwardUsesBackwardOptions ==
    /\ \A d \in 1..Len(ctxs) : ctxs[d].bck_config = MergedBck
    /\ (req.made /\ args.depth >= 1) =>
          /\ args.fwd_options = MergedBck
          /\ args.bck_options = MergedBck
          /\ pc # "forward" => frame.config = MergedBck /\ frame.bck_config = MergedBck
          /\ cg.config # NoOptions =>
                cg.config = SetDefaultOption(
                    [max_niter |-> NRows(args.B), verbose |-> FALSE,
                     min_eps |-> MinEpsDefault], MergedBck)

C6_Witness ==
    /\ args.depth = 2
    /\ pc = "loop"
    /\ "max_niter" \in DOMAIN req.fwd_options
    /\ "max_niter" \notin DOMAIN req.bck_options
    /\ req.fwd_options["max_niter"] # cg.config["max_niter"]

(* C7 as stated: every completed backward call has used the VJP primitive  *)
(* exactly twice.                                                          *)
C7_VjpTwice == (bwd.state = "done") => bwd.vjp = 2

(* C7 amended: a completed backward call has used the VJP primitive once   *)
(* when its ctx holds no M and twice when it holds M; a backward call      *)
(* whose nested solve has not returned has not used it.                    *)
C7_VjpOncePlusM ==
    /\ (bwd.state = "done") =>
          bwd.vjp = (IF ctxs[bwd.d].M = None THEN 1 ELSE 2)
    /\ (bwd.state \in {"solving", "failed"}) => bwd.vjp = 0

C7_Witness ==
    /\ bwd.state = "done"
    /\ bwd.vjp = 2
    /\ ctxs[bwd.d].M # None

(* C8: a completed backward call returns v, the solution of its nested     *)
(* solve, for B; None for A, M, both option sets and na; a tensor for the  *)
(* biases exactly when the ctx holds biases; the VJPs for params, and the  *)
(* VJPs for mparams exactly when the ctx holds M.                          *)
C8_Gradients ==
    (bwd.state = "done") =>
        LET ctx == ctxs[bwd.d]
            np  == Len(ctx.params)
            nm  == IF ctx.M # None THEN Len(ctx.mparams) ELSE 0
        IN  /\ Len(ctxs) = bwd.d + 1
            /\ bwd.v = ctxs[bwd.d + 1].x
            /\ Len(grads) = 7 + np + nm
            /\ grads[2].kind = "tensor" /\ grads[2].val = bwd.v
            /\ \A i \in {1, 4, 5, 6, 7} : grads[i].kind = "none"
            /\ (grads[3].kind = "tensor") <=> (ctx.biases # None)
            /\ (grads[3].kind = "none") <=> (ctx.biases = None)
            /\ \A i \in 1..np :
                  grads[7 + i].kind = "vjp" /\ grads[7 + i].val = <<"negA", i, bwd.v>>
            /\ \A i \in 1..nm :
                  grads[7 + np + i].kind = "vjp"
                  /\ grads[7 + np + i].val = <<"M", i, bwd.v>>

C8_Witness ==
    /\ bwd.state = "done"
    /\ ctxs[bwd.d].biases # None
    /\ ctxs[bwd.d].M # None
    /\ ctxs[bwd.d].mparams # <<>>
    /\ bwd.v # bwd.grad_x
    /\ ~IsZero(bwd.v)

(* C9: the loop runs at most max_niter bodies (na of them by default); the *)
(* eps_max of each body is the largest |Rs_new| over all columns; every    *)
(* body but the last saw eps_max >= min_eps; the loop breaks exactly at    *)
(* the first body with eps_max < min_eps and returns the X of that body.   *)
C9_LoopStops ==
    (cg.config # NoOptions) =>
        LET n   == Len(cg.eps_hist)
            low(k) == LtQ(cg.eps_hist[k], cg.config["min_eps"])
        IN  /\ cnt.iters = n
            /\ n <= cg.config["max_niter"]
            /\ "max_niter" \notin DOMAIN args.fwd_options =>
                  cg.config["max_niter"] = NRows(args.B)
            /\ \A k \in 1..n :
                  /\ \A c \in 1..Len(cg.rho_hist[k]) :
                        LeQ(AbsQ(cg.rho_hist[k][c]), cg.eps_hist[k])
                  /\ \E c \in 1..Len(cg.rho_hist[k]) :
                        AbsQ(cg.rho_hist[k][c]) = cg.eps_hist[k]
            /\ \A k \in 1..(n - 1) : ~low(k)
            /\ (cg.how = "break") <=> (n >= 1 /\ low(n))
            /\ cg.how = "break" =>
                  /\ result = [kind |-> "returned", x |-> cg.X, err |-> ""]
                  /\ ctxs[args.depth + 1].x = cg.X

C9_Witness ==
    /\ cg.how = "break"
    /\ Len(cg.eps_hist) = 2
    /\ \E c \in 1..Len(cg.rho_hist[1]) :
          LtQ(AbsQ(cg.rho_hist[1][c]), cg.config["min_eps"])
    /\ ~IsZero(cg.X)

(* C10: a completed backward call returns one gradient entry per input of  *)
(* the forward call it differentiates: 7 + len(params) + len(mparams).     *)
C10_OneGradientPerInput ==
    (bwd.state = "done") => Len(grads) = ctxs[bwd.d].n_inputs

=============================================================================
